---- MODULE Spec2Model ----
(***************************************************************************)
(* EatSense i18n tooling: the key injector (add_missing_translations.py),  *)
(* the basic scanner (scan_i18n.py) and the detailed scanner               *)
(* (scan_i18n_detailed.py).                                                *)
(*                                                                         *)
(* Text is modelled as a sequence of one-character strings, so that        *)
(* split('.'), substring tests and the regular expressions are computed.   *)
(* A JSON value is a tagged record; Python's None is JNull.                *)
(***************************************************************************)
EXTENDS Naturals, Sequences, FiniteSets, TLC

VARIABLES
    \* calls of get_nested_value / set_nested_value on one dictionary
    fn_d0, fn_d, fn_k, fn_v, fn_op, fn_out, fn_err,
    \* add_missing_translations.py
    files, run, pc, li, data, ei, added_count, writes, log,
    \* scan_i18n.py and scan_i18n_detailed.py
    tool, locfiles, tree, sc_pc, sc_li, locales, wi, to_scan, used_keys,
    hardcoded_issues, pending, missing_report, sc_log,
    \* the opens of locale files, for reading and for writing, of all runs
    io,
    \* calls of is_hardcoded_suspicious on one text
    hs_text, hs_op, hs_out

fnVars  == <<fn_d0, fn_d, fn_k, fn_v, fn_op, fn_out, fn_err>>
injVars == <<files, run, pc, li, data, ei, added_count, writes, log>>
scanVars == <<tool, locfiles, tree, sc_pc, sc_li, locales, wi, to_scan, used_keys,
              hardcoded_issues, pending, missing_report, sc_log>>
hsVars  == <<hs_text, hs_op, hs_out>>
vars    == <<fnVars, injVars, scanVars, io, hsVars>>

\* what the actions of one program leave alone
notFn   == <<injVars, scanVars, io, hsVars>>
notInj  == <<fnVars, scanVars, hsVars>>
notScan == <<fnVars, injVars, hsVars>>
notHs   == <<fnVars, injVars, scanVars, io>>

-----------------------------------------------------------------------------
(* Bounds of the model *)

\* nesting depth of the generated dictionaries handed to the resolvers
MaxDepth == 2
\* times the injector script is invoked one after the other
MaxRuns == 2
\* length of the generated one-line source files
MaxLineLen == 4
\* length of the generated texts handed to is_hardcoded_suspicious
MaxTextLen == 3

-----------------------------------------------------------------------------
(* Python str operations on sequences of characters *)

\* s[i:j] with 1-based i and j, j excluded
Slice(s, i, j) == IF j <= i THEN <<>> ELSE SubSeq(s, i, j - 1)

\* the first index >= i of s whose character is not in class, Len(s) + 1 if none
RECURSIVE RunEnd(_, _, _)
RunEnd(s, i, class) ==
    IF i > Len(s) \/ s[i] \notin class THEN i ELSE RunEnd(s, i + 1, class)

\* the first index >= i of s whose character is in class, Len(s) + 1 if none
RECURSIVE FindFirst(_, _, _)
FindFirst(s, i, class) ==
    IF i > Len(s) \/ s[i] \in class THEN i ELSE FindFirst(s, i + 1, class)

\* str.split(sep) for a one-character separator: the pieces of s from index
\* i on
RECURSIVE SplitFrom(_, _, _)
SplitFrom(s, sep, i) ==
    LET j == FindFirst(s, i, {sep})
    IN  IF j > Len(s) THEN <<Slice(s, i, j)>>
        ELSE <<Slice(s, i, j)>> \o SplitFrom(s, sep, j + 1)

Split(s, sep) == SplitFrom(s, sep, 1)

\* sep.join(parts)
RECURSIVE Join(_, _)
Join(parts, sep) ==
    IF Len(parts) = 0 THEN <<>>
    ELSE IF Len(parts) = 1 THEN parts[1]
    ELSE parts[1] \o <<sep>> \o Join(Tail(parts), sep)

-----------------------------------------------------------------------------
(* JSON values as json.load returns them *)

JNull    == [t |-> "null"]
JStr(s)  == [t |-> "str", s |-> s]
JNum(n)  == [t |-> "num", n |-> n]
JList(l) == [t |-> "list", items |-> l]
JObj(m)  == [t |-> "obj", m |-> m]

EmptyObj == JObj(<<>>)
IsDict(x) == x.t = "obj"

\* Python truth value: None, "", 0, [] and {} are falsy
Truthy(x) ==
    CASE x.t = "null" -> FALSE
      [] x.t = "str"  -> x.s /= <<>>
      [] x.t = "num"  -> x.n /= 0
      [] x.t = "list" -> x.items /= <<>>
      [] x.t = "obj"  -> DOMAIN x.m /= {}

\* the mapping m with key k set to x (dict item assignment)
Put(m, k, x) == [j \in (DOMAIN m) \cup {k} |-> IF j = k THEN x ELSE m[j]]

\* all dictionaries whose keys are among ks and whose values are among xs
ObjsOver(ks, xs) == {JObj(m) : m \in UNION {[S -> xs] : S \in SUBSET ks}}

-----------------------------------------------------------------------------
(* get_nested_value, three copies *)

\* the for-loop over keys: descend while curr is a dict that has the key
RECURSIVE Descend(_, _)
Descend(curr, keys) ==
    IF Len(keys) = 0 THEN curr
    ELSE IF IsDict(curr) /\ keys[1] \in DOMAIN curr.m
         THEN Descend(curr.m[keys[1]], Tail(keys))
         ELSE JNull

\* scan_i18n.py: nested descent only
get_nested_value_basic(d, key_path) == Descend(d, Split(key_path, "."))

\* scan_i18n_detailed.py: the flat key first, then the descent
get_nested_value_detailed(d, key_path) ==
    IF key_path \in DOMAIN d.m THEN d.m[key_path]
    ELSE Descend(d, Split(key_path, "."))

\* add_missing_translations.py: the flat key first, then the descent
get_nested_value(d, key_path) ==
    IF key_path \in DOMAIN d.m THEN d.m[key_path]
    ELSE Descend(d, Split(key_path, "."))

-----------------------------------------------------------------------------
(* set_nested_value: the dictionary is changed in place, so the result     *)
(* carries the dictionary as the call leaves it, and whether it raised.    *)
(* `k not in curr` and `curr[k] = ...` on a str, a number, None or a list  *)
(* all end in a TypeError.                                                 *)

RECURSIVE SetIn(_, _, _)
SetIn(curr, keys, value) ==
    IF ~IsDict(curr) THEN [err |-> TRUE, data |-> curr]
    ELSE IF Len(keys) = 1
    THEN [err |-> FALSE, data |-> JObj(Put(curr.m, keys[1], value))]
    ELSE LET k     == keys[1]
             made  == IF k \in DOMAIN curr.m THEN curr.m ELSE Put(curr.m, k, EmptyObj)
             below == SetIn(made[k], Tail(keys), value)
         IN  [err |-> below.err, data |-> JObj(Put(made, k, below.data))]

\* a set_nested_value that replaces a non-dict segment instead of raising
RECURSIVE SetInOverwrite(_, _, _)
SetInOverwrite(curr, keys, value) ==
    LET c == IF IsDict(curr) THEN curr ELSE EmptyObj
    IN  IF Len(keys) = 1
        THEN [err |-> FALSE, data |-> JObj(Put(c.m, keys[1], value))]
        ELSE LET k     == keys[1]
                 made  == IF k \in DOMAIN c.m THEN c.m ELSE Put(c.m, k, EmptyObj)
                 below == SetInOverwrite(made[k], Tail(keys), value)
             IN  [err |-> FALSE, data |-> JObj(Put(made, k, below.data))]

set_nested_value_overwrite(d, key_path, value) ==
    SetInOverwrite(d, Split(key_path, "."), value)

set_nested_value(d, key_path, value) == SetIn(d, Split(key_path, "."), value)

-----------------------------------------------------------------------------
(* The resolvers and the upsert called on generated dictionaries *)

SegNames == <<"a", "b", "c", "d", "e", "f">>
Seg(i) == <<SegNames[i]>>

\* the dotted path a.b.c... of n segments
PathKey(n) == Join([i \in 1..n |-> Seg(i)], ".")

Leaves == {JStr(<<"x">>), JStr(<<>>), JNull, JNum(0), JList(<<>>), EmptyObj}

\* the values that can sit under segment lvl of the path
RECURSIVE ValsAt(_)
ValsAt(lvl) ==
    IF lvl >= MaxDepth THEN Leaves
    ELSE Leaves \cup {JObj(Seg(lvl + 1) :> x) : x \in ValsAt(lvl + 1)}

\* dictionaries with the nested segment a and the flat key a.b
Dicts ==
    {JObj(m) : m \in UNION {[S -> ValsAt(1)] : S \in SUBSET {Seg(1), PathKey(2)}}}

KeyPaths == {PathKey(n) : n \in 1..(MaxDepth + 1)} \cup {Seg(2)}

NewValues == {JStr(<<"v">>)}

FnInit ==
    /\ fn_d0 \in Dicts
    /\ fn_d = fn_d0
    /\ fn_k \in KeyPaths
    /\ fn_v \in NewValues
    /\ fn_op = "init"
    /\ fn_out = JNull
    /\ fn_err = FALSE

FnIdle ==
    /\ fn_d0 = EmptyObj /\ fn_d = EmptyObj /\ fn_k = <<>> /\ fn_v = JNull
    /\ fn_op = "idle" /\ fn_out = JNull /\ fn_err = FALSE

ResolveBasic ==
    /\ fn_op = "init"
    /\ fn_out' = get_nested_value_basic(fn_d, fn_k)
    /\ fn_op' = "get_basic"
    /\ UNCHANGED <<fn_d0, fn_d, fn_k, fn_v, fn_err>>
    /\ UNCHANGED notFn

ResolveDetailed ==
    /\ fn_op = "init"
    /\ fn_out' = get_nested_value_detailed(fn_d, fn_k)
    /\ fn_op' = "get_detailed"
    /\ UNCHANGED <<fn_d0, fn_d, fn_k, fn_v, fn_err>>
    /\ UNCHANGED notFn

ResolveInjector ==
    /\ fn_op = "init"
    /\ fn_out' = get_nested_value(fn_d, fn_k)
    /\ fn_op' = "get_injector"
    /\ UNCHANGED <<fn_d0, fn_d, fn_k, fn_v, fn_err>>
    /\ UNCHANGED notFn

Upsert ==
    /\ fn_op = "init"
    /\ LET r == set_nested_value(fn_d, fn_k, fn_v)
       IN  /\ fn_d' = r.data
           /\ fn_err' = r.err
    /\ fn_op' = "set"
    /\ UNCHANGED <<fn_d0, fn_k, fn_v, fn_out>>
    /\ UNCHANGED notFn

ResolveAfterUpsert ==
    /\ fn_op = "set"
    /\ ~fn_err
    /\ fn_out' = get_nested_value(fn_d, fn_k)
    /\ fn_op' = "set_get"
    /\ UNCHANGED <<fn_d0, fn_d, fn_k, fn_v, fn_err>>
    /\ UNCHANGED notFn

FnNext ==
    \/ ResolveBasic
    \/ ResolveDetailed
    \/ ResolveInjector
    \/ Upsert
    \/ ResolveAfterUpsert

-----------------------------------------------------------------------------
(* add_missing_translations.py *)

\* a list that names ru twice
LANGUAGES_Twice == <<"ru", "en", "kk", "fr", "ru">>

LANGUAGES == <<"ru", "en", "kk", "fr">>

K_common       == <<"c","o","m","m","o","n">>
K_error        == <<"e","r","r","o","r">>
K_ok           == <<"o","k">>
K_goTo         == <<"g","o","T","o">>
K_common_error == <<"c","o","m","m","o","n",".","e","r","r","o","r">>
K_common_ok    == <<"c","o","m","m","o","n",".","o","k">>
K_common_goTo  == <<"c","o","m","m","o","n",".","g","o","T","o">>
V_Error        == <<"E","r","r","o","r">>
V_OK           == <<"O","K">>
\* 'Перейти', transliterated
V_Perejti      == <<"P","e","r","e","j","t","i">>

\* the table, cut to its first and third entry for en; fr has no entry
MISSING_KEYS ==
    [en |-> << <<K_common_error, JStr(V_Error)>>, <<K_common_ok, JStr(V_OK)>> >>,
     kk |-> <<>>,
     ru |-> << <<K_common_goTo, JStr(V_Perejti)>> >>]

\* MISSING_KEYS.get(lang, {})
MissingFor(lang) ==
    IF lang \in DOMAIN MISSING_KEYS THEN MISSING_KEYS[lang] ELSE <<>>

FileMissing   == [st |-> "missing"]
FileMalformed == [st |-> "malformed"]
FileOk(d)     == [st |-> "ok", data |-> d]

\* what a locale file can hold where the table's keys go
LocaleLeaves == {JStr(<<"x">>), JStr(<<>>), JNull}

EnDicts ==
    {JObj(m) : m \in UNION {
        [S -> LocaleLeaves \cup ObjsOver({K_error, K_ok}, LocaleLeaves)]
            : S \in SUBSET {K_common} }}
    \cup
    {JObj(Put(d.m, K_common_error, x)) :
        d \in {EmptyObj, JObj(K_common :> JObj(K_error :> JStr(<<"x">>)))},
        x \in LocaleLeaves}

RuDicts ==
    {EmptyObj,
     JObj(K_common :> JObj(K_goTo :> JStr(<<"x">>))),
     JObj(K_common :> JStr(<<"x">>)),
     JObj(K_common_goTo :> JNull)}

InjFiles ==
    {[ru |-> r, en |-> e, kk |-> k, fr |-> f] :
        r \in {FileMissing} \cup {FileOk(d) : d \in RuDicts},
        e \in {FileMalformed} \cup {FileOk(d) : d \in EnDicts},
        k \in {FileMissing, FileOk(EmptyObj)},
        f \in {FileMalformed, FileOk(EmptyObj)}}

InjInit ==
    /\ files \in InjFiles
    /\ run = 1
    /\ pc = "lang"
    /\ li = 1
    /\ data = JNull
    /\ ei = 0
    /\ added_count = 0
    /\ writes = <<>>
    /\ log = <<>>

InjIdle ==
    /\ files = <<>> /\ run = 0 /\ pc = "idle" /\ li = 0 /\ data = JNull
    /\ ei = 0 /\ added_count = 0 /\ writes = <<>> /\ log = <<>>

Msg(kind, lang, n) == [run |-> run, kind |-> kind, lang |-> lang, n |-> n]

\* open(path, 'r') and open(path, 'w') of a language's file
Opened(op, t, r, lang) == [op |-> op, tool |-> t, run |-> r, lang |-> lang]

\* lines 323-337: the top of the loop over LANGUAGES, up to the entry loop
InjectLoad ==
    /\ pc = "lang"
    /\ li <= Len(LANGUAGES)
    /\ LET lang == LANGUAGES[li]
           f    == files[lang]
       IN  IF f.st = "missing"
           THEN /\ log' = Append(log, Msg("not_found", lang, 0))
                /\ li' = li + 1
                /\ UNCHANGED <<pc, data, ei, added_count>>
           ELSE IF f.st = "malformed"
           THEN /\ log' = Append(log, Msg("parse_error", lang, 0))
                /\ li' = li + 1
                /\ UNCHANGED <<pc, data, ei, added_count>>
           ELSE /\ data' = f.data
                /\ added_count' = 0
                /\ ei' = 0
                /\ pc' = "entries"
                /\ UNCHANGED <<li, log>>
    /\ io' = IF files[LANGUAGES[li]].st = "missing" THEN io
             ELSE Append(io, Opened("load", "injector", run, LANGUAGES[li]))
    /\ UNCHANGED <<files, run, writes>>
    /\ UNCHANGED notInj

\* lines 339-342: one iteration of the loop over missing.items()
InjectEntry ==
    /\ pc = "entries"
    /\ ei < Len(MissingFor(LANGUAGES[li]))
    /\ LET entry == MissingFor(LANGUAGES[li])[ei + 1]
           key   == entry[1]
           value == entry[2]
       IN  IF ~Truthy(get_nested_value(data, key))
           THEN LET r == set_nested_value(data, key, value)
                IN  /\ data' = r.data
                    /\ IF r.err
                       THEN \* the TypeError leaves add_missing_keys and the script
                            /\ pc' = "aborted"
                            /\ UNCHANGED <<ei, added_count>>
                       ELSE /\ added_count' = added_count + 1
                            /\ ei' = ei + 1
                            /\ pc' = pc
           ELSE /\ ei' = ei + 1
                /\ UNCHANGED <<data, added_count, pc>>
    /\ UNCHANGED <<files, run, li, writes, log>>
    /\ UNCHANGED io
    /\ UNCHANGED notInj

\* a write whatever the count
ShouldWriteAlways(count) == TRUE

\* whether the file is written once the entries are done
ShouldWrite(count) == count > 0

\* lines 344-349: after the entry loop
InjectFinish ==
    /\ pc = "entries"
    /\ ei = Len(MissingFor(LANGUAGES[li]))
    /\ LET lang == LANGUAGES[li]
       IN  IF ShouldWrite(added_count)
           THEN /\ files' = [files EXCEPT ![lang] = FileOk(data)]
                /\ writes' = Append(writes, Msg("write", lang, added_count))
                /\ log' = Append(log, Msg("added", lang, added_count))
           ELSE /\ log' = Append(log, Msg("nothing_to_add", lang, added_count))
                /\ UNCHANGED <<files, writes>>
    /\ io' = IF ShouldWrite(added_count)
             THEN Append(io, Opened("save", "injector", run, LANGUAGES[li]))
             ELSE io
    /\ li' = li + 1
    /\ pc' = "lang"
    /\ UNCHANGED <<run, data, ei, added_count>>
    /\ UNCHANGED notInj

\* add_missing_keys returns; line 354
InjectReturn ==
    /\ pc = "lang"
    /\ li > Len(LANGUAGES)
    /\ pc' = "done"
    /\ UNCHANGED <<files, run, li, data, ei, added_count, writes, log>>
    /\ UNCHANGED io
    /\ UNCHANGED notInj

\* the script is started again on the files the last run left
InjectAgain ==
    /\ pc \in {"done", "aborted"}
    /\ run < MaxRuns
    /\ run' = run + 1
    /\ pc' = "lang"
    /\ li' = 1
    /\ data' = JNull
    /\ ei' = 0
    /\ added_count' = 0
    /\ UNCHANGED <<files, writes, log>>
    /\ UNCHANGED io
    /\ UNCHANGED notInj

InjNext ==
    \/ InjectLoad
    \/ InjectEntry
    \/ InjectFinish
    \/ InjectReturn
    \/ InjectAgain

-----------------------------------------------------------------------------
(* More of Python's str, and the character classes of the patterns *)

UpperChars == {"A","B","C","D","E","F","G","H","I","J","K","L","M",
               "N","O","P","Q","R","S","T","U","V","W","X","Y","Z"}
LowerChars == {"a","b","c","d","e","f","g","h","i","j","k","l","m",
               "n","o","p","q","r","s","t","u","v","w","x","y","z"}
DigitChars == {"0","1","2","3","4","5","6","7","8","9"}
\* \s, and what str.strip() removes
SpaceChars == {" ", "\t", "\n", "\r"}
\* \w, for the \b of PROPS_PATTERN
WordChars  == UpperChars \cup LowerChars \cup DigitChars \cup {"_"}
\* [a-zA-Z0-9_.]
KeyChars   == WordChars \cup {"."}
\* ['"]
QuoteChars == {"'", "\""}

\* sub in s, from index i on
StartsWithAt(s, sub, i) ==
    /\ i + Len(sub) - 1 <= Len(s)
    /\ \A n \in 1..Len(sub) : s[i + n - 1] = sub[n]

Contains(s, sub) == \E i \in 1..(Len(s) + 1) : StartsWithAt(s, sub, i)
StartsWith(s, sub) == StartsWithAt(s, sub, 1)
EndsWith(s, sub) == Len(sub) <= Len(s) /\ StartsWithAt(s, sub, Len(s) - Len(sub) + 1)

\* the last index <= i of s whose character is not in class, 0 if none
RECURSIVE RunStartBack(_, _, _)
RunStartBack(s, i, class) ==
    IF i < 1 \/ s[i] \notin class THEN i ELSE RunStartBack(s, i - 1, class)

\* str.strip()
Strip(s) ==
    LET a == RunEnd(s, 1, SpaceChars)
        b == RunStartBack(s, Len(s), SpaceChars)
    IN  Slice(s, a, b + 1)

\* str.isdigit()
IsDigit(s) == s /= <<>> /\ \A i \in 1..Len(s) : s[i] \in DigitChars

\* content.split('\n')
SplitLines(content) == Split(content, "\n")

-----------------------------------------------------------------------------
(* T_FUNCTION_PATTERN  t\(\s*['"]([a-zA-Z0-9_.]+)['"]\s*(?:,\s*[^)]+)?\)    *)
(* Every choice the pattern leaves is forced: the key is the longest run   *)
(* of key characters, which a quote must end, and the optional second      *)
(* argument is the run of characters other than ')' after the comma.       *)

NoMatch == [ok |-> FALSE]

TMatchAt(c, i) ==
    IF ~StartsWithAt(c, <<"t", "(">>, i) THEN NoMatch
    ELSE
    LET q1 == RunEnd(c, i + 2, SpaceChars)                     \* \s*
    IN  IF q1 > Len(c) \/ c[q1] \notin QuoteChars THEN NoMatch
        ELSE
        LET q2 == RunEnd(c, q1 + 1, KeyChars)                  \* ([a-zA-Z0-9_.]+)
        IN  IF q2 = q1 + 1 \/ q2 > Len(c) \/ c[q2] \notin QuoteChars THEN NoMatch
            ELSE
            LET p == RunEnd(c, q2 + 1, SpaceChars)             \* \s*
                r == FindFirst(c, p + 1, {")"})                \* , \s* [^)]+
                key == Slice(c, q1 + 1, q2)
            IN  IF p <= Len(c) /\ c[p] = ")"
                THEN [ok |-> TRUE, group |-> key, next |-> p + 1]
                ELSE IF p <= Len(c) /\ c[p] = "," /\ r > p + 1 /\ r <= Len(c)
                THEN [ok |-> TRUE, group |-> key, next |-> r + 1]
                ELSE NoMatch

\* T_FUNCTION_PATTERN.findall(content): the keys of the matches, left to
\* right, each search starting where the last match ended
RECURSIVE TFindAll(_, _)
TFindAll(c, i) ==
    LET j == FindFirst(c, i, {"t"})      \* a match starts with 't'
    IN  IF j > Len(c) THEN <<>>
        ELSE LET m == TMatchAt(c, j)
             IN  IF m.ok THEN <<m.group>> \o TFindAll(c, m.next)
                 ELSE TFindAll(c, j + 1)

-----------------------------------------------------------------------------
(* JSX_TEXT_PATTERN  >([^<{}]+)<                                           *)

\* the characters [^<{}] leaves out
JsxStopAll == {"<", "{", "}"}

\* a class that leaves out the tag opener only
JsxStopTagOnly == {"<"}

JsxStop == JsxStopAll

\* the run is the longest one: a shorter one is followed by a character of
\* the class, never by '<'
JsxMatchAt(line, i) ==
    IF i > Len(line) \/ line[i] /= ">" THEN NoMatch
    ELSE LET r == FindFirst(line, i + 1, JsxStop)
         IN  IF r > i + 1 /\ r <= Len(line) /\ line[r] = "<"
             THEN [ok |-> TRUE, group |-> Slice(line, i + 1, r), next |-> r + 1]
             ELSE NoMatch

\* JSX_TEXT_PATTERN.findall(line)
RECURSIVE JsxFindAll(_, _)
JsxFindAll(line, i) ==
    LET j == FindFirst(line, i, {">"})   \* a match starts with '>'
    IN  IF j > Len(line) THEN <<>>
        ELSE LET m == JsxMatchAt(line, j)
             IN  IF m.ok THEN <<m.group>> \o JsxFindAll(line, m.next)
                 ELSE JsxFindAll(line, j + 1)

-----------------------------------------------------------------------------
(* PROPS_PATTERN  \b(title|...)\s*=\s*["']([^"']{2,})["']                  *)

P_title       == <<"t","i","t","l","e">>
P_label       == <<"l","a","b","e","l">>
P_placeholder == <<"p","l","a","c","e","h","o","l","d","e","r">>
P_message     == <<"m","e","s","s","a","g","e">>
P_header      == <<"h","e","a","d","e","r">>
P_subtitle    == <<"s","u","b","t","i","t","l","e">>
P_description == <<"d","e","s","c","r","i","p","t","i","o","n">>
P_hint        == <<"h","i","n","t">>

\* the alternatives in the order the pattern tries them
PropNames(tl) ==
    IF tl = "basic"
    THEN <<P_title, P_label, P_placeholder, P_message, P_header>>
    ELSE <<P_title, P_label, P_placeholder, P_message, P_header,
           P_subtitle, P_description, P_hint>>

\* the match with the name already chosen
PropMatchName(line, i, name) ==
    IF ~StartsWithAt(line, name, i) THEN NoMatch
    ELSE
    LET e  == RunEnd(line, i + Len(name), SpaceChars)           \* \s*
    IN  IF e > Len(line) \/ line[e] /= "=" THEN NoMatch
        ELSE
        LET q1 == RunEnd(line, e + 1, SpaceChars)               \* \s*
        IN  IF q1 > Len(line) \/ line[q1] \notin QuoteChars THEN NoMatch
            ELSE
            LET q2 == FindFirst(line, q1 + 1, QuoteChars)       \* [^"']{2,}
            IN  IF q2 - (q1 + 1) >= 2 /\ q2 <= Len(line)
                THEN [ok |-> TRUE, prop |-> name,
                      group |-> Slice(line, q1 + 1, q2), next |-> q2 + 1]
                ELSE NoMatch

\* the first alternative that matches at i, after the \b
RECURSIVE PropTryNames(_, _, _, _)
PropTryNames(line, i, names, n) ==
    IF n > Len(names) THEN NoMatch
    ELSE LET m == PropMatchName(line, i, names[n])
         IN  IF m.ok THEN m ELSE PropTryNames(line, i, names, n + 1)

PropMatchAt(tl, line, i) ==
    IF i > 1 /\ line[i - 1] \in WordChars THEN NoMatch
    ELSE PropTryNames(line, i, PropNames(tl), 1)

\* PROPS_PATTERN.findall(line): the (prop, text) pairs
RECURSIVE PropFindAll(_, _, _)
PropFindAll(tl, line, i) ==
    LET names == PropNames(tl)
        j == FindFirst(line, i, {names[n][1] : n \in 1..Len(names)})
    IN  IF j > Len(line) THEN <<>>
        ELSE LET m == PropMatchAt(tl, line, j)
             IN  IF m.ok THEN <<[prop |-> m.prop, text |-> m.group]>>
                                  \o PropFindAll(tl, line, m.next)
                 ELSE PropFindAll(tl, line, j + 1)

-----------------------------------------------------------------------------
(* is_hardcoded_suspicious, the two copies *)

CodeIndicatorsBasic ==
    { <<"P","r","o","m","i","s","e">>, <<"v","o","i","d">>, <<"r","e","t","u","r","n">>,
      <<"i","m","p","o","r","t">>, <<"e","x","p","o","r","t">>,
      <<"|","|">>, <<"&","&">>, <<"=","=">>, <<"!","=">>, <<"=",">">>, <<")",":">>, <<"(","{">>,
      <<".","i","n","c","l","u","d","e","s","(">>, <<".","m","a","p","(">>,
      <<".","f","i","l","t","e","r","(">>, <<".","j","o","i","n","(">>,
      <<"c","o","n","s","t"," ">>, <<"l","e","t"," ">>, <<"v","a","r"," ">>,
      <<"f","u","n","c","t","i","o","n">>, <<"c","l","a","s","s"," ">>,
      <<"(","u","r","l",":"," ","s","t","r","i","n","g">>,
      <<"R","e","c","o","r","d">>, <<"P","a","r","t","i","a","l">>, <<"P","i","c","k">>,
      <<"O","m","i","t">>, <<"<","T",">">> }

CodeIndicatorsDetailed ==
    CodeIndicatorsBasic \cup
    { <<"D","E","L","E","T","E">>, <<"H","E","A","D">>, <<"G","E","T">>, <<"P","U","T">>,
      <<"P","e","r","f","o","r","m","a","n","c","e">>, <<"E","r","r","o","r">> }

\* a text that counts only when it has a space
SuspiciousTextSpaceOnly(text, indicators) ==
    IF text = <<>> \/ IsDigit(text) \/ Len(text) < 2 THEN FALSE
    ELSE IF \E ind \in indicators : Contains(text, ind) THEN FALSE
    ELSE Contains(text, <<" ">>)

\* the test of the text once stripped
SuspiciousText(text, indicators) ==
    IF text = <<>> \/ IsDigit(text) \/ Len(text) < 2 THEN FALSE
    ELSE IF \E ind \in indicators : Contains(text, ind) THEN FALSE
    ELSE IF ~Contains(text, <<" ">>) /\ text[1] \notin UpperChars THEN FALSE
    ELSE TRUE

is_hardcoded_suspicious_basic(text) == SuspiciousText(Strip(text), CodeIndicatorsBasic)

is_hardcoded_suspicious_detailed(text) == SuspiciousText(Strip(text), CodeIndicatorsDetailed)

is_hardcoded_suspicious(tl, text) ==
    IF tl = "basic" THEN is_hardcoded_suspicious_basic(text)
    ELSE is_hardcoded_suspicious_detailed(text)

\* the texts handed to the function: every text of at most MaxTextLen
\* characters over TextAlphabet, and some longer ones
TextAlphabet == {" ", "A", "a", "1", "="}
X_hello_world == <<"H","e","l","l","o"," ","W","o","r","l","d">>
X_error_text  == <<"E","r","r","o","r"," ","l","o","a","d","i","n","g">>
X_get_data    == <<" ","G","E","T"," ","d","a","t","a","\n">>
X_const       == <<"c","o","n","s","t"," ","x">>
X_camel       == <<"c","a","m","e","l","C","a","s","e">>
X_number      == <<" ","1","2"," ">>
Texts ==
    UNION {[1..n -> TextAlphabet] : n \in 0..MaxTextLen}
        \cup {X_hello_world, X_error_text, X_get_data, X_const, X_camel, X_number}

HsInit == hs_text \in Texts /\ hs_op = "init" /\ hs_out = FALSE

HsIdle == hs_text = <<>> /\ hs_op = "idle" /\ hs_out = FALSE

\* is_hardcoded_suspicious(text) of scan_i18n.py
SuspiciousBasic ==
    /\ hs_op = "init"
    /\ hs_out' = is_hardcoded_suspicious_basic(hs_text)
    /\ hs_op' = "basic"
    /\ UNCHANGED hs_text
    /\ UNCHANGED notHs

\* is_hardcoded_suspicious(text) of scan_i18n_detailed.py
SuspiciousDetailed ==
    /\ hs_op = "init"
    /\ hs_out' = is_hardcoded_suspicious_detailed(hs_text)
    /\ hs_op' = "detailed"
    /\ UNCHANGED hs_text
    /\ UNCHANGED notHs

HsNext ==
    \/ SuspiciousBasic
    \/ SuspiciousDetailed

-----------------------------------------------------------------------------
(* The scan of one file's text: the same statements in both scanners *)

KeyDenylist ==
    { <<".">>, <<"T">>, <<"w","i","n","d","o","w">>, <<"s","c","r","e","e","n">>,
      <<"a","p","i">>, <<"c","a","c","h","e">>, <<"x","s","s">>, <<"b">>, <<"a">> }

\* a match that is kept as a key
IsKey(match) ==
    /\ ~(Contains(match, <<"$","{">>) \/ Len(match) < 2)
    /\ match \notin KeyDenylist

\* the (key, file) pairs of one file
FileKeys(rel_path, content) ==
    LET matches == TFindAll(content, 1)
    IN  {<<matches[n], rel_path>> : n \in {j \in 1..Len(matches) : IsKey(matches[j])}}

\* a line that is never taken for a comment
IsCommentLineNever(line) == FALSE

\* `if '//' in line and line.strip().startswith('//'): continue`
IsCommentLine(line) ==
    Contains(line, <<"/","/">>) /\ StartsWith(Strip(line), <<"/","/">>)

T_JSX == <<"JSX Text">>
T_Prop(prop) == <<"Prop", prop>>

Issue(type, rel_path, lineno, text) ==
    [type |-> type, file |-> rel_path, line |-> lineno, text |-> Strip(text)]

\* the JSX Text sub-scan of one line
JsxIssues(tl, rel_path, lineno, line) ==
    LET Keep(text) == is_hardcoded_suspicious(tl, text)
        found == SelectSeq(JsxFindAll(line, 1), Keep)
    IN  [n \in 1..Len(found) |-> Issue(T_JSX, rel_path, lineno, found[n])]

\* a text that is never taken for a link
IsLinkNever(text) == FALSE

\* `text.startswith('http')`
IsLink(text) == StartsWith(text, <<"h","t","t","p">>)

\* the Props sub-scan of one line
PropIssues(tl, rel_path, lineno, line) ==
    LET Keep(m) == is_hardcoded_suspicious(tl, m.text) /\ ~IsLink(m.text)
        found == SelectSeq(PropFindAll(tl, line, 1), Keep)
    IN  [n \in 1..Len(found) |-> Issue(T_Prop(found[n].prop), rel_path, lineno, found[n].text)]

\* one iteration of `for i, line in enumerate(lines)`; lineno is i + 1
LineIssues(tl, rel_path, lineno, line) ==
    IF IsCommentLine(line) THEN <<>>
    ELSE JsxIssues(tl, rel_path, lineno, line) \o PropIssues(tl, rel_path, lineno, line)

\* the findings of the last line first
RECURSIVE LinesIssuesReversed(_, _, _, _)
LinesIssuesReversed(tl, rel_path, lines, n) ==
    IF n > Len(lines) THEN <<>>
    ELSE LinesIssuesReversed(tl, rel_path, lines, n + 1) \o LineIssues(tl, rel_path, n, lines[n])

RECURSIVE LinesIssues(_, _, _, _)
LinesIssues(tl, rel_path, lines, n) ==
    IF n > Len(lines) THEN <<>>
    ELSE LineIssues(tl, rel_path, n, lines[n]) \o LinesIssues(tl, rel_path, lines, n + 1)

\* the hardcode findings of one file, in line order
FileIssues(tl, rel_path, content) ==
    LinesIssues(tl, rel_path, SplitLines(content), 1)

-----------------------------------------------------------------------------
(* The source tree and the locale files the scanners find *)

PathJoin(root, file) == root \o <<"/">> \o file

\* os.path.basename
Basename(path) == LET parts == Split(path, "/") IN parts[Len(parts)]

R_screens == <<"s","r","c","/","s","c","r","e","e","n","s">>
R_tests   == <<"s","r","c","/","_","_","t","e","s","t","s","_","_">>
F_Onboarding == <<"O","n","b","o","a","r","d","i","n","g","S","c","r","e","e","n",".","j","s">>
F_Progress   == <<"D","i","e","t","P","r","o","g","r","a","m","P","r","o","g","r","e","s","s","S","c","r","e","e","n",".","t","s","x">>
F_HomeTest   == <<"H","o","m","e",".","t","e","s","t",".","j","s">>
F_Diets      == <<"D","i","e","t","s","S","c","r","e","e","n",".","j","s">>

C_call    == <<"t","(","'","c","o","m","m","o","n",".","e","r","r","o","r","'",")">>
C_comment == <<"/","/"," ","t","(","'","u","n","u","s","e","d",".","k","e","y","'",")">>
C_markup  == <<"<","T","e","x","t",">","H","e","l","l","o"," ","W","o","r","l","d","<","/","T","e","x","t",">","\n","<","T","e","x","t",">","{","t","(","'","c","o","m","m","o","n",".","o","k","'",")","}","<","/","T","e","x","t",">">>
C_mixed   == <<"c","o","n","s","t"," ","a"," ","="," ","t","(","\"","c","o","m","m","o","n",".","e","r","r","o","r","\"",","," ","'","E","r","r","o","r","'",")",";","\n"," "," ","/","/"," ","<","T","e","x","t",">","H","i","d","d","e","n"," ","T","e","x","t","<","/","T","e","x","t",">","\n","<","B","u","t","t","o","n"," ","t","i","t","l","e","=","\"","W","e","l","c","o","m","e"," ","H","o","m","e","\""," ","/",">">>
C_diets   == <<"t","(","'","d","i","e","t","s",".","t","i","t","l","e","'",")">>
C_two     == <<"<","T","e","x","t",">","H","e","l","l","o"," ","W","o","r","l","d","<","/","T","e","x","t",">"," ","/","/"," ","a","\n"," "," ","/","/"," ","<","B"," ","t","i","t","l","e","=","\"","H","i","d"," ","D","e","n","\"",">","H","i","d"," ","D","e","n","<","/","B",">","\n","<","B","u","t","t","o","n"," ","t","i","t","l","e","=","\"","W","e","l","c","o","m","e"," ","H","o","m","e","\"",">","P","r","e","s","s"," ","M","e","<","/","B","u","t","t","o","n",">">>
C_keys    == <<"t","(","'","b",".","k","e","y","'",")"," ","t","(","'","a",".","k","e","y","'",")">>
C_skipped == <<"t","(","'","s","k","i","p","p","e","d",".","k","e","y","'",")">>

L_hello  == <<"<","T","e","x","t",">","H","e","l","l","o"," ","W","o","r","l","d","<","/","T","e","x","t",">">>
L_interp == <<"<","T","e","x","t",">","{","t","r","a","n","s","l","a","t","e","d","G","r","e","e","t","i","n","g","}","<","/","T","e","x","t",">">>
L_view   == <<"<","V","i","e","w",">">>
L_title      == <<"t","i","t","l","e","=","\"","W","e","l","c","o","m","e"," ","H","o","m","e","\"">>
L_title_dyn  == <<"t","i","t","l","e","=","{","d","y","n","a","m","i","c","T","i","t","l","e","}">>
L_url        == <<"u","r","l","=","\"","h","t","t","p",":","/","/","e","x","a","m","p","l","e",".","c","o","m","\"">>
L_title_link == <<"t","i","t","l","e","=","\"","h","t","t","p"," ","l","i","n","k","\"">>
L_subtitle   == <<"s","u","b","t","i","t","l","e","=","\"","W","e","l","c","o","m","e"," ","H","o","m","e","\"">>

K_unused_key == <<"u","n","u","s","e","d",".","k","e","y">>

SrcFile(root, file, st, content) ==
    [root |-> root, file |-> file, st |-> st, content |-> content]

\* what open() and read() can meet
Readable(cs) ==
    {[st |-> "ok", content |-> c] : c \in cs}
        \cup {[st |-> "open_fail", content |-> <<>>],
              [st |-> "decode_fail", content |-> <<>>]}

\* the walk of src/, directory by directory
Trees ==
    {<< SrcFile(R_screens, F_Onboarding, a.st, a.content),
        SrcFile(R_screens, F_Progress, b.st, b.content),
        SrcFile(R_screens, F_HomeTest, "ok", C_skipped),
        SrcFile(R_tests, F_Diets, "ok", C_diets) >> :
        a \in Readable({C_call, C_comment, C_markup}),
        b \in Readable({C_mixed, L_view})}

\* a tree with each file at the path TARGET_AREAS gives for it
\* a flagged line, and files of 21 and of 20 such lines
L_flag == <<">","A","b","<">>
C_many == Join([n \in 1..21 |-> L_flag], "\n")
C_most == Join([n \in 1..20 |-> L_flag], "\n")

AreaTrees ==
    {<< SrcFile(R_screens, F_Onboarding, a.st, a.content),
        SrcFile(R_screens, F_Diets, "ok", d),
        SrcFile(R_screens, F_Progress, b.st, b.content) >> :
        a \in Readable({C_call, C_markup, C_diets, C_keys}),
        d \in {C_diets, L_title},
        b \in Readable({C_mixed, L_view, C_two, C_many, C_most})}

D_en    == JObj(K_common :> JObj(K_error :> JStr(V_Error)))
D_falsy == JObj(K_common :> JObj(K_error :> JStr(<<>>) @@ K_ok :> JNull))
D_flat  == JObj(K_common_error :> JStr(V_Error))

ScanLocaleFiles ==
    {[ru |-> r, en |-> e, kk |-> k, fr |-> f] :
        r \in {FileOk(D_en), FileMissing},
        e \in {FileOk(D_en), FileMalformed},
        k \in {FileOk(D_falsy), FileMalformed},
        f \in {FileOk(EmptyObj), FileOk(D_flat), FileMissing}}

\* one-line files: the lines of the spec's examples and every line of at
\* most MaxLineLen characters over LineAlphabet
LineAlphabet == {"<", ">", "{", "}", "A", " "}
GenLines == UNION {[1..n -> LineAlphabet] : n \in 0..MaxLineLen}
Lines == GenLines \cup {L_hello, L_interp, L_view, C_call,
                         L_title, L_title_dyn, L_url, L_title_link, L_subtitle}

-----------------------------------------------------------------------------
(* scan_i18n.py and scan_i18n_detailed.py *)

\* the areas of scan_i18n_detailed.py with their files and components
TARGET_AREAS ==
    [Onboarding |-> [files |-> <<
            <<"s","r","c","/","s","c","r","e","e","n","s","/","O","n","b","o","a","r","d","i","n","g","S","c","r","e","e","n",".","j","s">> >>,
        components |-> <<
            <<"s","r","c","/","c","o","m","p","o","n","e","n","t","s","/","H","e","a","l","t","h","D","i","s","c","l","a","i","m","e","r",".","j","s","x">>,
            <<"s","r","c","/","c","o","m","p","o","n","e","n","t","s","/","L","e","g","a","l","D","o","c","u","m","e","n","t","V","i","e","w",".","t","s","x">> >>,
        keys |-> <<
            <<"o","n","b","o","a","r","d","i","n","g",".">>,
            <<"s","u","b","s","c","r","i","p","t","i","o","n",".">>,
            <<"e","r","r","o","r",".">> >>],
     Nutrition_Diets |-> [files |-> <<
            <<"s","r","c","/","s","c","r","e","e","n","s","/","D","i","e","t","s","S","c","r","e","e","n",".","j","s">>,
            <<"s","r","c","/","s","c","r","e","e","n","s","/","D","i","e","t","P","r","o","g","r","a","m","D","e","t","a","i","l","S","c","r","e","e","n",".","t","s","x">>,
            <<"s","r","c","/","s","c","r","e","e","n","s","/","D","i","e","t","P","r","o","g","r","a","m","P","r","o","g","r","e","s","s","S","c","r","e","e","n",".","t","s","x">>,
            <<"s","r","c","/","s","c","r","e","e","n","s","/","D","i","e","t","P","r","o","g","r","a","m","s","L","i","s","t","S","c","r","e","e","n",".","t","s","x">> >>,
        components |-> <<
            <<"s","r","c","/","c","o","m","p","o","n","e","n","t","s","/","p","r","o","g","r","a","m","s","/","D","i","e","t","s","T","a","b","C","o","n","t","e","n","t",".","t","s","x">>,
            <<"s","r","c","/","c","o","m","p","o","n","e","n","t","s","/","p","r","o","g","r","a","m","s","/","S","u","g","g","e","s","t","P","r","o","g","r","a","m","C","a","r","d",".","t","s","x">>,
            <<"s","r","c","/","c","o","m","p","o","n","e","n","t","s","/","H","i","s","t","o","r","i","c","a","l","D","i","e","t","s","C","a","r","o","u","s","e","l",".","t","s","x">> >>,
        keys |-> <<
            <<"d","i","e","t","s",".">>,
            <<"d","i","e","t","P","r","o","g","r","a","m","s",".">>,
            <<"d","i","e","t","s","_">>,
            <<"e","r","r","o","r","s",".","s","t","a","r","t","P","r","o","g","r","a","m">>,
            <<"e","r","r","o","r","s",".","s","t","o","p","P","r","o","g","r","a","m">>,
            <<"e","r","r","o","r","s",".","p","a","u","s","e","P","r","o","g","r","a","m">>,
            <<"e","r","r","o","r","s",".","c","o","m","p","l","e","t","e","D","a","y">> >>],
     Nutrition_Lifestyles |-> [files |-> <<
            <<"s","r","c","/","s","c","r","e","e","n","s","/","L","i","f","e","s","t","y","l","e","D","e","t","a","i","l","S","c","r","e","e","n",".","t","s","x">> >>,
        components |-> <<
            <<"s","r","c","/","f","e","a","t","u","r","e","s","/","l","i","f","e","s","t","y","l","e","s","/","c","o","m","p","o","n","e","n","t","s","/","L","i","f","e","s","t","y","l","e","D","e","t","a","i","l","S","c","r","e","e","n",".","t","s","x">>,
            <<"s","r","c","/","f","e","a","t","u","r","e","s","/","l","i","f","e","s","t","y","l","e","s","/","c","o","m","p","o","n","e","n","t","s","/","L","i","f","e","s","t","y","l","e","T","a","b","C","o","n","t","e","n","t",".","t","s","x">>,
            <<"s","r","c","/","f","e","a","t","u","r","e","s","/","l","i","f","e","s","t","y","l","e","s","/","c","o","m","p","o","n","e","n","t","s","/","L","i","f","e","s","t","y","l","e","C","a","r","d",".","t","s","x">>,
            <<"s","r","c","/","f","e","a","t","u","r","e","s","/","l","i","f","e","s","t","y","l","e","s","/","c","o","m","p","o","n","e","n","t","s","/","C","a","t","e","g","o","r","y","C","h","i","p","s",".","t","s","x">>,
            <<"s","r","c","/","f","e","a","t","u","r","e","s","/","l","i","f","e","s","t","y","l","e","s","/","c","o","m","p","o","n","e","n","t","s","/","D","i","s","c","l","a","i","m","e","r","B","a","n","n","e","r",".","t","s","x">>,
            <<"s","r","c","/","f","e","a","t","u","r","e","s","/","l","i","f","e","s","t","y","l","e","s","/","c","o","m","p","o","n","e","n","t","s","/","T","r","e","n","d","i","n","g","C","a","r","o","u","s","e","l",".","t","s","x">> >>,
        keys |-> <<
            <<"l","i","f","e","s","t","y","l","e","s",".">>,
            <<"d","i","e","t","P","r","o","g","r","a","m","s",".">>,
            <<"e","r","r","o","r","s",".">> >>],
     Nutrition_Tracker |-> [files |-> <<
            <<"s","r","c","/","s","c","r","e","e","n","s","/","D","i","e","t","P","r","o","g","r","a","m","P","r","o","g","r","e","s","s","S","c","r","e","e","n",".","t","s","x">> >>,
        components |-> <<
            <<"s","r","c","/","c","o","m","p","o","n","e","n","t","s","/","d","a","s","h","b","o","a","r","d","/","A","c","t","i","v","e","D","i","e","t","W","i","d","g","e","t",".","j","s">> >>,
        keys |-> <<
            <<"d","i","e","t","P","r","o","g","r","a","m","s",".">>,
            <<"d","i","e","t","s",".","t","r","a","c","k","e","r",".">>,
            <<"d","a","s","h","b","o","a","r","d",".","a","c","t","i","v","e","D","i","e","t",".">> >>],
     Paywall |-> [files |-> <<>>,
        components |-> <<
            <<"s","r","c","/","c","o","m","p","o","n","e","n","t","s","/","P","a","y","w","a","l","l","M","o","d","a","l",".","t","s","x">> >>,
        keys |-> <<
            <<"p","a","y","w","a","l","l",".">>,
            <<"l","i","m","i","t","s",".">> >>]]

\* the areas but the tracker
AreaNamesWithoutTracker == DOMAIN TARGET_AREAS \ {"Nutrition_Tracker"}

AreaNames == DOMAIN TARGET_AREAS

ScanInitWith(t, lf, tr) ==
    /\ tool = t
    /\ locfiles = lf
    /\ tree = tr
    /\ sc_pc = "load"
    /\ sc_li = 1
    /\ locales = <<>>
    /\ wi = 1
    /\ to_scan = {}
    /\ used_keys = IF t = "basic" THEN {} ELSE <<>>
    /\ hardcoded_issues = <<>>
    /\ pending = {}
    /\ missing_report = <<>>
    /\ sc_log = <<>>

ScanInit ==
    \E t \in {"basic", "detailed"}, lf \in ScanLocaleFiles, tr \in Trees :
        ScanInitWith(t, lf, tr)

LineInit ==
    \E t \in {"basic", "detailed"}, l \in Lines :
        ScanInitWith(t,
                     [ru |-> FileOk(D_en), en |-> FileOk(D_en),
                      kk |-> FileMalformed, fr |-> FileMissing],
                     << SrcFile(R_screens, F_Onboarding, "ok", l) >>)

AreaInit ==
    \E t \in {"basic", "detailed"}, tr \in AreaTrees,
       f \in {FileOk(D_flat), FileMissing, FileMalformed} :
        ScanInitWith(t,
                     [ru |-> FileOk(D_en), en |-> FileOk(D_en),
                      kk |-> FileOk(D_falsy), fr |-> f],
                     tr)

ScanIdle ==
    /\ tool = "none" /\ locfiles = <<>> /\ tree = <<>> /\ sc_pc = "idle"
    /\ sc_li = 0 /\ locales = <<>> /\ wi = 0 /\ to_scan = {} /\ used_keys = {}
    /\ hardcoded_issues = <<>> /\ pending = {} /\ missing_report = <<>>
    /\ sc_log = <<>>

\* the full dictionary whatever the file holds
LoadedLocaleStale(f) == IF f.st = "ok" THEN f.data ELSE D_en

\* the dictionary a language gets from its file
LoadedLocale(f) == IF f.st = "ok" THEN f.data ELSE EmptyObj

\* load_locales: one iteration of the loop over LANGUAGES
LoadLocale ==
    /\ sc_pc = "load"
    /\ LET lang == LANGUAGES[sc_li]
           f    == locfiles[lang]
       IN  /\ locales' = Put(locales, lang, LoadedLocale(f))
           /\ sc_log' =
                IF f.st = "missing" THEN Append(sc_log, [kind |-> "not_found", what |-> lang])
                ELSE IF f.st = "malformed" THEN Append(sc_log, [kind |-> "parse_error", what |-> lang])
                ELSE sc_log
    /\ io' = IF locfiles[LANGUAGES[sc_li]].st = "missing" THEN io
             ELSE Append(io, Opened("load", tool, 1, LANGUAGES[sc_li]))
    /\ sc_li' = sc_li + 1
    /\ sc_pc' = IF sc_li < Len(LANGUAGES) THEN "load"
                ELSE IF tool = "basic" THEN "scan" ELSE "collect"
    /\ UNCHANGED <<tool, locfiles, tree, wi, to_scan, used_keys,
                   hardcoded_issues, pending, missing_report>>
    /\ UNCHANGED notScan

\* scan_i18n.py: the directories and files the walk passes over
SkippedDir(root) ==
    Contains(root, <<"_","_","t","e","s","t","s","_","_">>) \/ Contains(root, <<"t","e","s","t">>) \/ Contains(root, <<"t","e","s","t","s">>)

HasSourceExt(file) ==
    \E ext \in {<<".","j","s">>, <<".","j","s","x">>, <<".","t","s">>, <<".","t","s","x">>} : EndsWith(file, ext)

IsTestFile(file) == Contains(file, <<".","t","e","s","t",".">>) \/ Contains(file, <<".","s","p","e","c",".">>)

\* scan_files: one file of the walk. open() is outside the try, read() and
\* the scan are inside it.
BasicScanEntry ==
    /\ tool = "basic"
    /\ sc_pc = "scan"
    /\ wi <= Len(tree)
    /\ LET e        == tree[wi]
           rel_path == PathJoin(e.root, e.file)
       IN  IF SkippedDir(e.root) \/ ~HasSourceExt(e.file) \/ IsTestFile(e.file)
           THEN /\ wi' = wi + 1
                /\ UNCHANGED <<sc_pc, used_keys, hardcoded_issues, sc_log>>
           ELSE IF e.st = "open_fail"
           THEN /\ sc_pc' = "aborted"
                /\ UNCHANGED <<wi, used_keys, hardcoded_issues, sc_log>>
           ELSE IF e.st = "decode_fail"
           THEN /\ sc_log' = Append(sc_log, [kind |-> "scan_error", what |-> rel_path])
                /\ wi' = wi + 1
                /\ UNCHANGED <<sc_pc, used_keys, hardcoded_issues>>
           ELSE /\ used_keys' = used_keys \cup FileKeys(rel_path, e.content)
                /\ hardcoded_issues' =
                       hardcoded_issues \o FileIssues("basic", rel_path, e.content)
                /\ wi' = wi + 1
                /\ UNCHANGED <<sc_pc, sc_log>>
    /\ UNCHANGED <<tool, locfiles, tree, sc_li, locales, to_scan, pending, missing_report>>
    /\ UNCHANGED io
    /\ UNCHANGED notScan

\* os.path.exists on a configured path
Exists(path) == \E n \in 1..Len(tree) : PathJoin(tree[n].root, tree[n].file) = path

\* glob('**/<filename>', recursive=True), files only
GlobByName(filename) ==
    {PathJoin(tree[n].root, tree[n].file) : n \in {j \in 1..Len(tree) : tree[j].file = filename}}

\* the files one configured path stands for
Resolved(path) == IF Exists(path) THEN {path} ELSE GlobByName(Basename(path))

\* a component path with '**' is globbed; TARGET_AREAS has none
ResolvedComponent(path) ==
    IF Contains(path, <<"*","*">>) THEN {} ELSE Resolved(path)

\* the areas a file is scanned for
FilesToScan ==
    UNION {
        {<<p, area>> : p \in
            UNION ({Resolved(TARGET_AREAS[area].files[n]) :
                        n \in 1..Len(TARGET_AREAS[area].files)}
                   \cup {ResolvedComponent(TARGET_AREAS[area].components[n]) :
                        n \in 1..Len(TARGET_AREAS[area].components)})}
        : area \in AreaNames}

\* scan_target_files: the collection of files_to_scan
DetailedCollect ==
    /\ tool = "detailed"
    /\ sc_pc = "collect"
    /\ to_scan' = FilesToScan
    /\ sc_pc' = "scan"
    /\ UNCHANGED <<tool, locfiles, tree, sc_li, locales, wi, used_keys,
                   hardcoded_issues, pending, missing_report, sc_log>>
    /\ UNCHANGED io
    /\ UNCHANGED notScan

\* the entry of the tree at a path
EntryAt(path) ==
    tree[CHOOSE n \in 1..Len(tree) : PathJoin(tree[n].root, tree[n].file) = path]

\* defaultdict: m[k] with a default for a key not yet there
GetOr(m, k, default) == IF k \in DOMAIN m THEN m[k] ELSE default

\* scan_target_files: one (file, area) of files_to_scan, in the set's order;
\* open(), read() and the scan are all inside the try
DetailedScanFile ==
    /\ tool = "detailed"
    /\ sc_pc = "scan"
    /\ \E fa \in to_scan :
        LET rel_path == fa[1]
            area     == fa[2]
            e        == EntryAt(rel_path)
            keys     == FileKeys(rel_path, e.content)
            issues   == FileIssues("detailed", rel_path, e.content)
        IN  /\ to_scan' = to_scan \ {fa}
            /\ IF e.st /= "ok"
               THEN /\ sc_log' = Append(sc_log, [kind |-> "scan_error", what |-> rel_path])
                    /\ UNCHANGED <<used_keys, hardcoded_issues>>
               ELSE /\ used_keys' =
                        IF keys = {} THEN used_keys
                        ELSE Put(used_keys, area, GetOr(used_keys, area, {}) \cup keys)
                    /\ hardcoded_issues' =
                        IF issues = <<>> THEN hardcoded_issues
                        ELSE Put(hardcoded_issues, area,
                                 GetOr(hardcoded_issues, area, <<>>) \o issues)
                    /\ UNCHANGED sc_log
    /\ UNCHANGED <<tool, locfiles, tree, sc_pc, sc_li, locales, wi, pending, missing_report>>
    /\ UNCHANGED io
    /\ UNCHANGED notScan

\* main: scan_files / scan_target_files has returned; the report starts
StartReport ==
    /\ sc_pc = "scan"
    /\ IF tool = "basic" THEN wi > Len(tree) ELSE to_scan = {}
    /\ pending' =
         IF tool = "basic" THEN {<<"all", kf>> : kf \in used_keys}
         ELSE UNION {{<<area, kf>> : kf \in used_keys[area]} : area \in DOMAIN used_keys}
    /\ missing_report' =
         IF tool = "basic" THEN [n \in {"ru", "en", "kk", "fr"} |-> <<>>] ELSE <<>>
    /\ sc_pc' = IF pending' = {} THEN "reported" ELSE "report"
    /\ UNCHANGED <<tool, locfiles, tree, sc_li, locales, wi, to_scan, used_keys,
                   hardcoded_issues, sc_log>>
    /\ UNCHANGED io
    /\ UNCHANGED notScan

\* the resolver of the running scanner
Resolve(t, d, key) ==
    IF t = "basic" THEN get_nested_value_basic(d, key)
    ELSE get_nested_value_detailed(d, key)

\* `if val is None`
IsMissingNoneOnly(val) == val = JNull

\* `if not val`
IsMissing(val) == ~Truthy(val)

\* the languages, in order, for which the pair is appended
RECURSIVE AppendMissing(_, _, _, _)
AppendMissing(report, key, pair, n) ==
    IF n > Len(LANGUAGES) THEN report
    ELSE LET lang == LANGUAGES[n]
             next == IF IsMissing(Resolve(tool, locales[lang], key))
                     THEN Put(report, lang, Append(GetOr(report, lang, <<>>), pair))
                     ELSE report
         IN  AppendMissing(next, key, pair, n + 1)

\* main: one (key, file) of the loop over used_keys, in the set's order, with
\* its inner loop over LANGUAGES
ReportPair ==
    /\ sc_pc = "report"
    /\ \E ap \in pending :
        LET area == ap[1]
            pair == ap[2]
        IN  /\ pending' = pending \ {ap}
            /\ missing_report' =
                 IF tool = "basic"
                 THEN AppendMissing(missing_report, pair[1], pair, 1)
                 ELSE LET was == GetOr(missing_report, area, <<>>)
                          now == AppendMissing(was, pair[1], pair, 1)
                      IN  IF now = <<>> THEN missing_report
                          ELSE Put(missing_report, area, now)
            /\ sc_pc' = IF pending' = {} THEN "reported" ELSE "report"
    /\ UNCHANGED <<tool, locfiles, tree, sc_li, locales, wi, to_scan, used_keys,
                   hardcoded_issues, sc_log>>
    /\ UNCHANGED io
    /\ UNCHANGED notScan

\* the characters of keys and paths, in code point order
Ascii ==
    <<".","/","0","1","2","3","4","5","6","7","8","9","A","B","C","D",
      "E","F","G","H","I","J","K","L","M","N","O","P","Q","R","S","T",
      "U","V","W","X","Y","Z","_","a","b","c","d","e","f","g","h","i",
      "j","k","l","m","n","o","p","q","r","s","t","u","v","w","x","y",
      "z">>

Ord(c) == CHOOSE n \in DOMAIN Ascii : Ascii[n] = c

\* a < b for two str, as Python compares them
RECURSIVE LessSeq(_, _)
LessSeq(a, b) ==
    IF b = <<>> THEN FALSE
    ELSE IF a = <<>> THEN TRUE
    ELSE IF a[1] = b[1] THEN LessSeq(Tail(a), Tail(b))
    ELSE Ord(a[1]) < Ord(b[1])

\* sorted(S) for a set of str
RECURSIVE SortSet(_)
SortSet(S) ==
    IF S = {} THEN <<>>
    ELSE LET least == CHOOSE x \in S : \A y \in S \ {x} : LessSeq(x, y)
         IN  <<least>> \o SortSet(S \ {least})

\* sorted(missing, key=lambda x: x[1]): by file, pairs of one file in the
\* order they have in the list
RECURSIVE InsertByFile(_, _)
InsertByFile(sorted, pair) ==
    IF sorted = <<>> THEN <<pair>>
    ELSE IF LessSeq(pair[2], sorted[1][2]) THEN <<pair>> \o sorted
    ELSE <<sorted[1]>> \o InsertByFile(Tail(sorted), pair)

RECURSIVE SortByFile(_)
SortByFile(list) ==
    IF list = <<>> THEN <<>>
    ELSE InsertByFile(SortByFile(SubSeq(list, 1, Len(list) - 1)), list[Len(list)])

RECURSIVE Flatten(_)
Flatten(seqs) == IF seqs = <<>> THEN <<>> ELSE seqs[1] \o Flatten(Tail(seqs))

Out(kind, what) == [kind |-> kind, what |-> what]

\* scan_i18n.py: TARGET_AREAS['Onboarding'] and TARGET_AREAS['Nutrition']
BasicOnboarding == << <<"O","n","b","o","a","r","d","i","n","g","S","c","r","e","e","n",".","j","s">> >>
BasicNutrition ==
    << <<"D","i","e","t","s","S","c","r","e","e","n",".","j","s">>,
       <<"L","i","f","e","s","t","y","l","e","D","e","t","a","i","l","S","c","r","e","e","n",".","t","s","x">>,
       <<"D","i","e","t","P","r","o","g","r","a","m","D","e","t","a","i","l","S","c","r","e","e","n",".","t","s","x">> >>

InTargets(f, targets) == \E n \in DOMAIN targets : Contains(f, targets[n])

\* scan_i18n.py, lines 182-190: the lines printed for one language
BasicMissingLines(lang) ==
    LET list   == missing_report[lang]
        sorted == SortByFile(list)
    IN  IF list = <<>> THEN <<>>
        ELSE <<Out("missing_count", <<lang, Len(list)>>)>>
                 \o [n \in DOMAIN sorted |->
                        Out("missing_entry",
                            <<lang, sorted[n][2], sorted[n][1],
                              InTargets(sorted[n][2], BasicOnboarding \o BasicNutrition)>>)]

\* scan_i18n_detailed.py, lines 312-330: the areas in the order of the report
ReportAreas ==
    <<"Onboarding", "Nutrition_Diets", "Nutrition_Lifestyles", "Nutrition_Tracker", "Paywall">>

\* lines 324-330: the lines of one file, its keys sorted and without repeats
DetailedFileLines(lang, list, file) ==
    LET keys == SortSet({list[n][1] : n \in {j \in DOMAIN list : list[j][2] = file}})
    IN  <<Out("missing_file", <<lang, file>>)>>
            \o [n \in DOMAIN keys |-> Out("missing_entry", <<lang, file, keys[n], FALSE>>)]

\* lines 319-330: the lines of one language within an area
DetailedLangLines(area, lang) ==
    LET list  == GetOr(missing_report[area], lang, <<>>)
        by_file == SortSet({list[n][2] : n \in DOMAIN list})
    IN  IF list = <<>> THEN <<>>
        ELSE <<Out("missing_count", <<lang, Len(list)>>)>>
                 \o Flatten([n \in DOMAIN by_file |-> DetailedFileLines(lang, list, by_file[n])])

\* lines 312-330: the lines of one area
DetailedAreaLines(area) ==
    IF area \notin DOMAIN missing_report THEN <<>>
    ELSE <<Out("missing_area", area)>>
             \o Flatten([n \in DOMAIN LANGUAGES |-> DetailedLangLines(area, LANGUAGES[n])])

\* total_missing[lang], summed over the areas of the report
RECURSIVE TotalMissing(_, _)
TotalMissing(lang, n) ==
    IF n > Len(ReportAreas) THEN 0
    ELSE (IF ReportAreas[n] \in DOMAIN missing_report
          THEN Len(GetOr(missing_report[ReportAreas[n]], lang, <<>>)) ELSE 0)
             + TotalMissing(lang, n + 1)

\* main: the missing-key section goes to the console
PrintMissing ==
    /\ sc_pc = "reported"
    /\ sc_log' = sc_log \o
         (IF tool = "basic"
          THEN Flatten([n \in DOMAIN LANGUAGES |-> BasicMissingLines(LANGUAGES[n])])
          ELSE Flatten([n \in DOMAIN ReportAreas |-> DetailedAreaLines(ReportAreas[n])])
                   \o [n \in DOMAIN LANGUAGES |->
                          Out("missing_total", <<LANGUAGES[n], TotalMissing(LANGUAGES[n], 1)>>)])
    /\ sc_pc' = "printed"
    /\ UNCHANGED <<tool, locfiles, tree, sc_li, locales, wi, to_scan, used_keys,
                   hardcoded_issues, pending, missing_report>>
    /\ UNCHANGED io
    /\ UNCHANGED notScan

\* seq[:k]
Take(seq, k) == SubSeq(seq, 1, IF Len(seq) < k THEN Len(seq) ELSE k)

\* scan_i18n.py, lines 202-209: the group an issue goes to
IsOnboardingIssue(issue) == InTargets(issue.file, BasicOnboarding)
IsNutritionIssue(issue) ==
    ~InTargets(issue.file, BasicOnboarding) /\ InTargets(issue.file, BasicNutrition)
IsOtherIssue(issue) ==
    ~InTargets(issue.file, BasicOnboarding) /\ ~InTargets(issue.file, BasicNutrition)

\* the line printed for an issue: file:line [type] "text"
IssueLine(i) == Out("hardcoded_issue", <<i.file, i.line, i.type, i.text>>)

\* scan_i18n.py, lines 211-215
print_issues(issues, title) ==
    IF issues = <<>> THEN <<>>
    ELSE <<Out("hardcoded_title", title)>> \o [n \in DOMAIN issues |-> IssueLine(issues[n])]

\* scan_i18n.py, lines 217-225: the three groups; the header of a long
\* "other" group reads "OTHER FILES (<found> issues found, showing first 20)"
BasicHardcodedLines ==
    LET onboarding_issues == SelectSeq(hardcoded_issues, IsOnboardingIssue)
        nutrition_issues  == SelectSeq(hardcoded_issues, IsNutritionIssue)
        other_issues      == SelectSeq(hardcoded_issues, IsOtherIssue)
        shown             == Take(other_issues, 20)
    IN  print_issues(onboarding_issues, "ONBOARDING (CRITICAL)")
            \o print_issues(nutrition_issues, "NUTRITION / DIETS (CRITICAL)")
            \o (IF Len(other_issues) > 20
                THEN <<Out("hardcoded_capped",
                           [title |-> "OTHER FILES", found |-> Len(other_issues), showing |-> 20])>>
                         \o [n \in DOMAIN shown |-> IssueLine(shown[n])]
                ELSE print_issues(other_issues, "OTHER FILES"))

\* scan_i18n_detailed.py, lines 344-351: the first 10 issues of an area, the
\* text cut to 50 characters, then how many more there are
DetailedHardcodedLines(area) ==
    LET issues == GetOr(hardcoded_issues, area, <<>>)
        shown  == Take(issues, 10)
    IN  IF issues = <<>> THEN <<>>
        ELSE <<Out("hardcoded_title", area)>>
                 \o [n \in DOMAIN shown |->
                        Out("hardcoded_issue",
                            <<shown[n].file, shown[n].line, shown[n].type, Take(shown[n].text, 50)>>)]
                 \o (IF Len(issues) > 10 THEN <<Out("hardcoded_more", Len(issues) - 10)>> ELSE <<>>)

\* main: the hardcoded-strings section goes to the console and the run ends
PrintHardcoded ==
    /\ sc_pc = "printed"
    /\ sc_log' = sc_log \o <<Out("hardcoded_section", tool)>> \o
         (IF tool = "basic" THEN BasicHardcodedLines
          ELSE Flatten([n \in DOMAIN ReportAreas |-> DetailedHardcodedLines(ReportAreas[n])]))
    /\ sc_pc' = "done"
    /\ UNCHANGED <<tool, locfiles, tree, sc_li, locales, wi, to_scan, used_keys,
                   hardcoded_issues, pending, missing_report>>
    /\ UNCHANGED io
    /\ UNCHANGED notScan

ScanNext ==
    \/ LoadLocale
    \/ BasicScanEntry
    \/ DetailedCollect
    \/ DetailedScanFile
    \/ StartReport
    \/ ReportPair
    \/ PrintMissing
    \/ PrintHardcoded

-----------------------------------------------------------------------------
(* Specifications *)

InitResolve == FnInit /\ InjIdle /\ ScanIdle /\ io = <<>> /\ HsIdle
SpecResolve == InitResolve /\ [][FnNext]_vars

InitInject == InjInit /\ FnIdle /\ ScanIdle /\ io = <<>> /\ HsIdle
SpecInject == InitInject /\ [][InjNext]_vars

InitScan == ScanInit /\ FnIdle /\ InjIdle /\ io = <<>> /\ HsIdle
SpecScan == InitScan /\ [][ScanNext]_vars

InitLine == LineInit /\ FnIdle /\ InjIdle /\ io = <<>> /\ HsIdle
SpecLine == InitLine /\ [][ScanNext]_vars

InitArea == AreaInit /\ FnIdle /\ InjIdle /\ io = <<>> /\ HsIdle
SpecArea == InitArea /\ [][ScanNext]_vars

\* one run of a scanner, or the runs of the injector
InitTools ==
    /\ io = <<>>
    /\ HsIdle
    /\ FnIdle
    /\ \/ InjInit /\ ScanIdle
       \/ AreaInit /\ InjIdle

ToolsNext ==
    \/ InjectLoad
    \/ InjectEntry
    \/ InjectFinish
    \/ InjectReturn
    \/ InjectAgain
    \/ LoadLocale
    \/ BasicScanEntry
    \/ DetailedCollect
    \/ DetailedScanFile
    \/ StartReport
    \/ ReportPair
    \/ PrintMissing
    \/ PrintHardcoded

SpecTools == InitTools /\ [][ToolsNext]_vars

InitSuspicious == HsInit /\ FnIdle /\ InjIdle /\ ScanIdle /\ io = <<>>
SpecSuspicious == InitSuspicious /\ [][HsNext]_vars

-----------------------------------------------------------------------------
(* Claims about get_nested_value and set_nested_value (SpecResolve) *)

\* C2: for a key path that get_nested_value finds absent (None) in d,
\* set_nested_value(d, k, v) followed by get_nested_value(d, k) returns v.
C2_RoundTrip ==
    (fn_op = "set_get" /\ get_nested_value(fn_d0, fn_k) = JNull) => fn_out = fn_v

\* C3: each of the three resolvers returns d's own top-level entry for k
\* whenever k is a direct key of d, dots or not.
C3_FlatKeyPrecedence ==
    (fn_op \in {"get_basic", "get_detailed", "get_injector"} /\ fn_k \in DOMAIN fn_d0.m)
        => fn_out = fn_d0.m[fn_k]

\* the descent of set_nested_value through keys[:-1] meets a value that is
\* there and is not an object
RECURSIVE MeetsNonObject(_, _)
MeetsNonObject(curr, keys) ==
    IF Len(keys) <= 1 \/ keys[1] \notin DOMAIN curr.m THEN FALSE
    ELSE IF ~IsDict(curr.m[keys[1]]) THEN TRUE
    ELSE MeetsNonObject(curr.m[keys[1]], Tail(keys))

\* C15: a call set_nested_value(d, k, v) whose descent meets a segment with
\* a non-object value (string, number, null, list) ends in an error and
\* leaves d as it was; a call whose descent meets none ends without error.
C15_NonObjectSegmentKept ==
    fn_op = "set" =>
        IF MeetsNonObject(fn_d0, Split(fn_k, "."))
        THEN fn_err /\ fn_d = fn_d0
        ELSE ~fn_err

\* the call with d = {"a": {"b": "x"}} and k = a.b.c has ended in an error
C15_Witness ==
    /\ fn_op = "set" /\ fn_err
    /\ fn_d0 = JObj(Seg(1) :> JObj(Seg(2) :> JStr(<<"x">>)))
    /\ fn_k = PathKey(3)

-----------------------------------------------------------------------------
(* Claims about the key injector (SpecInject) *)

WrittenIn(r, lang) ==
    \E i \in DOMAIN writes : writes[i].run = r /\ writes[i].lang = lang

\* C1: the second of two runs in succession adds no key (added_count = 0
\* for every language) and writes no file.
C1_SecondRunAddsNothing ==
    /\ \A i \in DOMAIN log : log[i].run >= 2 => log[i].kind /= "added"
    /\ \A i \in DOMAIN writes : writes[i].run < 2

\* C6: for a language whose file loaded, the file is written if and only if
\* added_count is nonzero once all its table entries are processed, and no
\* write happens while entries are still being processed.
C6_WriteIffAdded ==
    /\ \A i \in DOMAIN log :
          log[i].kind \in {"added", "nothing_to_add"}
              => (WrittenIn(log[i].run, log[i].lang) <=> log[i].n > 0)
    /\ pc \in {"entries", "aborted"} => ~WrittenIn(run, LANGUAGES[li])

\* a language was written after adding keys, another finished with nothing to add
C6_Witness ==
    /\ \E i \in DOMAIN log : log[i].kind = "added" /\ log[i].n = 2
    /\ \E i \in DOMAIN log : log[i].kind = "nothing_to_add" /\ log[i].n = 0
    /\ pc = "entries" /\ ei = 1 /\ added_count = 1

\* C8: a key collision (a table key whose path passes through a non-object
\* value) does not abort the run.
C8_CollisionRecovered == pc /= "aborted"

\* the entry loop of a language whose file loaded has just ended and the
\* file, if any key was added, is written: data is the resulting dictionary
JustProcessed(lang) ==
    /\ pc = "lang" /\ li > 1 /\ LANGUAGES[li - 1] = lang
    /\ log /= <<>>
    /\ log[Len(log)].kind \in {"added", "nothing_to_add"}
    /\ log[Len(log)].lang = lang /\ log[Len(log)].run = run

\* C21: after the injector has finished processing a language whose file
\* loaded, every key of that language's table resolves, by the injector's
\* get_nested_value, to a truthy value in the resulting dictionary, whenever
\* the run did not raise; also for a table key that is present as a flat
\* top-level key with an empty-string or null value.
C21_TableKeysResolveTruthy ==
    \A n \in DOMAIN LANGUAGES :
        JustProcessed(LANGUAGES[n]) =>
            \A e \in DOMAIN MissingFor(LANGUAGES[n]) :
                Truthy(get_nested_value(data, MissingFor(LANGUAGES[n])[e][1]))

\* the position of a language in LANGUAGES
LangIndex(lang) == CHOOSE n \in DOMAIN LANGUAGES : LANGUAGES[n] = lang

\* run r is over
RunOver(r) == r < run \/ (r = run /\ pc \in {"done", "aborted"})

\* the lines of run r
RunLog(r) == LET OfRun(m) == m.run = r IN SelectSeq(log, OfRun)

\* a language skipped for its missing or malformed file is not written, its
\* file stays as it was, and no table entry is applied to it
SkippedUntouched ==
    \A i \in DOMAIN log :
        log[i].kind \in {"not_found", "parse_error"} =>
            /\ ~WrittenIn(log[i].run, log[i].lang)
            /\ files[log[i].lang] = (IF log[i].kind = "not_found" THEN FileMissing ELSE FileMalformed)
            /\ \A j \in DOMAIN log :
                  (log[j].run = log[i].run /\ log[j].lang = log[i].lang) => j = i

\* the lines of a run name the languages in configured order
InConfiguredOrder ==
    \A r \in 1..run : \A j, k \in DOMAIN RunLog(r) :
        j < k => LangIndex(RunLog(r)[j].lang) < LangIndex(RunLog(r)[k].lang)

\* C22: the injector never creates or writes the file of a language whose
\* file is missing or fails to parse: the language is skipped with a log
\* line, no table entry is applied to it, and the remaining languages are
\* still processed in configured order (each has its line once the run is
\* over).
C22_SkippedLanguages ==
    /\ SkippedUntouched
    /\ InConfiguredOrder
    /\ \A i \in DOMAIN log :
          (log[i].kind \in {"not_found", "parse_error"} /\ RunOver(log[i].run)) =>
              \A n \in DOMAIN LANGUAGES :
                  n > LangIndex(log[i].lang) =>
                      \E j \in DOMAIN log :
                          log[j].run = log[i].run /\ log[j].lang = LANGUAGES[n]

-----------------------------------------------------------------------------
(* Claims about the two scanners (SpecScan, SpecLine) *)

\* the (key, file) pairs extracted so far, each with its area
ExtractedPairs ==
    IF tool = "basic" THEN {<<"all", kf>> : kf \in used_keys}
    ELSE UNION {{<<area, kf>> : kf \in used_keys[area]} : area \in DOMAIN used_keys}

\* the missing list of a language (within an area for the detailed scanner)
MissingList(area, lang) ==
    IF tool = "basic" THEN GetOr(missing_report, lang, <<>>)
    ELSE GetOr(GetOr(missing_report, area, <<>>), lang, <<>>)

InMissing(area, lang, pair) ==
    \E n \in DOMAIN MissingList(area, lang) : MissingList(area, lang)[n] = pair

\* the pairs whose languages the report has gone through
Reported == IF sc_pc \in {"report", "reported", "printed", "done"} THEN ExtractedPairs \ pending ELSE {}

\* every hardcode finding recorded so far
IssueSet ==
    IF tool = "basic" THEN {hardcoded_issues[n] : n \in DOMAIN hardcoded_issues}
    ELSE UNION {{hardcoded_issues[a][n] : n \in DOMAIN hardcoded_issues[a]} :
                    a \in DOMAIN hardcoded_issues}

\* the scan of the files is over
ScanDone ==
    \/ sc_pc \in {"report", "reported", "printed", "done"}
    \/ sc_pc = "scan" /\ (IF tool = "basic" THEN wi > Len(tree) ELSE to_scan = {})

\* a file's text without the lines whose trimmed content begins with //
IsCodeLine(line) == ~IsCommentLine(line)
WithoutCommentLines(content) == Join(SelectSeq(SplitLines(content), IsCodeLine), "\n")

\* C4: a key is in the used keys only on account of a line that is not a
\* comment line: every extracted (key, file) pair is also extracted from the
\* file's text with its comment lines left out.
C4_CommentLinesExcluded ==
    \A ap \in ExtractedPairs :
        \E n \in DOMAIN tree :
            /\ PathJoin(tree[n].root, tree[n].file) = ap[2][2]
            /\ ap[2] \in FileKeys(ap[2][2], WithoutCommentLines(tree[n].content))

\* C5: once the report has gone through a (key, file) pair, the pair is in
\* the missing list of a language if and only if the key, resolved in that
\* language's own dictionary (top-level match first, then descent), is absent
\* or falsy.
C5_MissingIffUnresolved ==
    \A ap \in Reported : \A n \in DOMAIN LANGUAGES :
        InMissing(ap[1], LANGUAGES[n], ap[2])
            <=> ~Truthy(get_nested_value(locales[LANGUAGES[n]], ap[2][1]))

\* C7: a source file that cannot be opened or decoded never aborts the run,
\* is logged, and contributes no key and no hardcode finding.
C7_FileFailureContained ==
    /\ sc_pc /= "aborted"
    /\ \A n \in DOMAIN tree :
          tree[n].st /= "ok" =>
              LET path == PathJoin(tree[n].root, tree[n].file)
              IN  /\ \A ap \in ExtractedPairs : ap[2][2] /= path
                  /\ \A i \in IssueSet : i.file /= path
                  /\ (ScanDone /\ (tool = "basic" \/ \E a \in AreaNames : <<path, a>> \in FilesToScan))
                         => \E j \in DOMAIN sc_log :
                               sc_log[j] = [kind |-> "scan_error", what |-> path]

\* C9: once load_locales has returned, a language whose file is missing or
\* malformed has the empty dictionary and every other language has the
\* dictionary of its own file; every pair the report has gone through is in
\* the missing list of a language without a dictionary, and the list of a
\* language with one depends on its own file only.
C9_BrokenLocaleIsEmpty ==
    sc_pc \notin {"idle", "load"} =>
        \A n \in DOMAIN LANGUAGES :
            LET lang == LANGUAGES[n]
                f    == locfiles[lang]
            IN  /\ lang \in DOMAIN locales
                /\ f.st /= "ok" =>
                      /\ locales[lang] = EmptyObj
                      /\ \A ap \in Reported : InMissing(ap[1], lang, ap[2])
                /\ f.st = "ok" =>
                      /\ locales[lang] = f.data
                      /\ \A ap \in Reported :
                            InMissing(ap[1], lang, ap[2])
                                <=> IsMissing(Resolve(tool, f.data, ap[2][1]))

\* the report is done: ru.json is missing and en.json is malformed, each has
\* the extracted key in its list, while fr.json holds the key and has not
C9_Witness ==
    /\ sc_pc = "reported"
    /\ locfiles.ru.st = "missing" /\ locfiles.en.st = "malformed"
    /\ locfiles.kk.st = "ok" /\ locfiles.fr = FileOk(D_flat)
    /\ tool = "detailed"
    /\ \E ap \in ExtractedPairs :
          /\ ap[2][1] = K_common_error
          /\ InMissing(ap[1], "ru", ap[2]) /\ InMissing(ap[1], "en", ap[2])
          /\ InMissing(ap[1], "kk", ap[2]) /\ ~InMissing(ap[1], "fr", ap[2])

\* the JSX Text findings, in the order they were recorded
IsJsx(i) == i.type = T_JSX
JsxFindings ==
    IF tool = "basic" THEN SelectSeq(hardcoded_issues, IsJsx)
    ELSE SelectSeq(GetOr(hardcoded_issues, "Onboarding", <<>>), IsJsx)

\* C10: for the one-line file <Text>Hello World</Text> the scan records one
\* JSX Text finding, with text Hello World; for <Text>{translatedGreeting}</Text>
\* and for <View> it records none; and no JSX Text finding's text has a '<',
\* a '{' or a '}'.
C10_MarkupText ==
    /\ \A i \in IssueSet :
          IsJsx(i) => \A n \in DOMAIN i.text : i.text[n] \notin {"<", "{", "}"}
    /\ (ScanDone /\ Len(tree) = 1) =>
          LET line == tree[1].content
              path == PathJoin(tree[1].root, tree[1].file)
          IN  /\ line = L_hello =>
                    JsxFindings = << [type |-> T_JSX, file |-> path, line |-> 1,
                                      text |-> <<"H","e","l","l","o"," ","W","o","r","l","d">>] >>
              /\ line \in {L_interp, L_view} => JsxFindings = <<>>

\* the scan of <Text>Hello World</Text> is over and has its finding
C10_Witness ==
    /\ ScanDone /\ Len(tree) = 1 /\ tree[1].content = L_hello
    /\ Len(JsxFindings) = 1
    /\ JsxFindings[1].text = <<"H","e","l","l","o"," ","W","o","r","l","d">>

\* the Prop findings, in the order they were recorded
IsProp(i) == i.type /= T_JSX
PropFindings ==
    IF tool = "basic" THEN SelectSeq(hardcoded_issues, IsProp)
    ELSE SelectSeq(GetOr(hardcoded_issues, "Onboarding", <<>>), IsProp)

\* the property names of the running scanner's pattern
FixedPropNames ==
    {P_title, P_label, P_placeholder, P_message, P_header}
        \cup (IF tool = "detailed" THEN {P_subtitle, P_description, P_hint} ELSE {})

\* C11: for the one-line file title="Welcome Home" the scan records one
\* finding, for property title with text Welcome Home; for title={dynamicTitle}
\* and url="http://example.com" it records none; every property finding is
\* for a name of the fixed set and comes from a quoted literal whose value
\* does not start with http.
C11_PropertyFindings ==
    Len(tree) = 1 =>
        LET line == tree[1].content
            path == PathJoin(tree[1].root, tree[1].file)
            lits == PropFindAll(tool, line, 1)
            Welcome(p) == << [type |-> T_Prop(p), file |-> path, line |-> 1,
                              text |-> <<"W","e","l","c","o","m","e"," ","H","o","m","e">>] >>
        IN  /\ \A n \in DOMAIN PropFindings :
                  \E p \in FixedPropNames, k \in DOMAIN lits :
                      /\ PropFindings[n].type = T_Prop(p)
                      /\ lits[k].prop = p
                      /\ PropFindings[n].text = Strip(lits[k].text)
                      /\ ~StartsWith(lits[k].text, <<"h","t","t","p">>)
            /\ ScanDone =>
                  /\ line = L_title => PropFindings = Welcome(P_title)
                  /\ line \in {L_title_dyn, L_url, L_title_link} => PropFindings = <<>>
                  /\ line = L_subtitle =>
                        PropFindings = IF tool = "basic" THEN <<>> ELSE Welcome(P_subtitle)

\* the scan of title="Welcome Home" is over and has its finding
C11_Witness ==
    /\ ScanDone /\ Len(tree) = 1 /\ tree[1].content = L_title
    /\ Len(PropFindings) = 1
    /\ PropFindings[1].type = T_Prop(P_title)

-----------------------------------------------------------------------------
(* Claims about the areas of the detailed scanner (SpecArea) *)

\* the paths TARGET_AREAS lists for an area, files and components
ListedPaths(area) ==
    {TARGET_AREAS[area].files[n] : n \in DOMAIN TARGET_AREAS[area].files}
        \cup {TARGET_AREAS[area].components[n] : n \in DOMAIN TARGET_AREAS[area].components}

\* the entries of the tree that could be read
ReadEntries == {n \in DOMAIN tree : tree[n].st = "ok"}

P_OnboardingScreen == PathJoin(R_screens, F_Onboarding)
P_DietsScreen      == PathJoin(R_screens, F_Diets)
P_ProgressScreen   == PathJoin(R_screens, F_Progress)

\* C12: once the detailed scanner has scanned its files, every key and every
\* hardcode finding of a readable file is recorded under each area that lists
\* the file's path: OnboardingScreen.js under Onboarding, DietsScreen.js
\* under Nutrition_Diets, DietProgramProgressScreen.tsx under Nutrition_Diets
\* and under Nutrition_Tracker.
C12_RecordedUnderArea ==
    (tool = "detailed" /\ ScanDone) =>
        /\ \A area \in DOMAIN TARGET_AREAS : \A n \in ReadEntries :
              LET path   == PathJoin(tree[n].root, tree[n].file)
                  issues == FileIssues("detailed", path, tree[n].content)
              IN  path \in ListedPaths(area) =>
                      /\ FileKeys(path, tree[n].content) \subseteq GetOr(used_keys, area, {})
                      /\ \A k \in DOMAIN issues :
                            \E j \in DOMAIN GetOr(hardcoded_issues, area, <<>>) :
                                hardcoded_issues[area][j] = issues[k]
        /\ P_OnboardingScreen \in ListedPaths("Onboarding")
        /\ P_DietsScreen \in ListedPaths("Nutrition_Diets")
        /\ P_ProgressScreen \in ListedPaths("Nutrition_Diets") \cap ListedPaths("Nutrition_Tracker")

\* the scan is over: the key of OnboardingScreen.js is under Onboarding, the
\* key of DietsScreen.js under Nutrition_Diets, and the key and the finding
\* of DietProgramProgressScreen.tsx under both of its areas
C12_Witness ==
    /\ tool = "detailed" /\ ScanDone
    /\ "Onboarding" \in DOMAIN used_keys
    /\ <<K_common_error, P_OnboardingScreen>> \in used_keys["Onboarding"]
    /\ \A a \in {"Nutrition_Diets", "Nutrition_Tracker"} :
          /\ a \in DOMAIN used_keys /\ a \in DOMAIN hardcoded_issues
          /\ <<K_common_error, P_ProgressScreen>> \in used_keys[a]
          /\ \E j \in DOMAIN hardcoded_issues[a] :
                hardcoded_issues[a][j].file = P_ProgressScreen
    /\ \E kf \in used_keys["Nutrition_Diets"] : kf[2] = P_DietsScreen

\* the areas a key belongs to by its prefix
PrefixAreas(key) ==
    {area \in DOMAIN TARGET_AREAS :
        \E n \in DOMAIN TARGET_AREAS[area].keys : StartsWith(key, TARGET_AREAS[area].keys[n])}

\* C13: in the report of the detailed scanner, an extracted key that starts
\* with one of an area's key prefixes is attributed to that area, whatever
\* file it was found in: the pair is in the area's missing list of every
\* language in which the key does not resolve.
C13_KeyPrefixAttribution ==
    (tool = "detailed" /\ sc_pc = "reported") =>
        \A ap \in ExtractedPairs : \A area \in PrefixAreas(ap[2][1]) :
            \A n \in DOMAIN LANGUAGES :
                IsMissing(Resolve(tool, locales[LANGUAGES[n]], ap[2][1]))
                    => InMissing(area, LANGUAGES[n], ap[2])

-----------------------------------------------------------------------------
(* Claims about the locale files of all three tools (SpecTools) *)

\* in one run of one tool a language's file is opened at most once for
\* reading and at most once for writing, the writing after the reading, and
\* only the injector writes
LoadSaveOnce ==
    /\ \A i, j \in DOMAIN io :
          (i < j /\ io[i].tool = io[j].tool /\ io[i].run = io[j].run
                 /\ io[i].lang = io[j].lang)
              => (io[i].op = "load" /\ io[j].op = "save")
    /\ \A j \in DOMAIN io :
          io[j].op = "save" =>
              /\ io[j].tool = "injector"
              /\ \E i \in 1..(j - 1) :
                    io[i] = [io[j] EXCEPT !.op = "load"]

\* C14: in every step of every tool, the files of the languages are loaded
\* at most once and saved at most once per run, a save follows the load of
\* the same file in the same run, a locale file changes only in a step that
\* saves it, and the scanners' locale files never change.
C14_LoadSaveOncePerRun ==
    [][ /\ LoadSaveOnce'
        /\ locfiles' = locfiles
        /\ files' /= files =>
              /\ Len(io') = Len(io) + 1
              /\ io'[Len(io')].op = "save"
              /\ \A l \in DOMAIN files :
                    files'[l] /= files[l] => l = io'[Len(io')].lang ]_vars

\* the injector has saved a file in its first run and loaded it again in
\* its second
C14_Witness ==
    /\ run = 2
    /\ \E i, j, k \in DOMAIN io :
          /\ io[i] = Opened("load", "injector", 1, "en")
          /\ io[j] = Opened("save", "injector", 1, "en")
          /\ io[k] = Opened("load", "injector", 2, "en")
          /\ i < j /\ j < k

-----------------------------------------------------------------------------
(* Claims about is_hardcoded_suspicious (SpecSuspicious) *)

\* the denylist of the copy that was called
Denylist == IF hs_op = "basic" THEN CodeIndicatorsBasic ELSE CodeIndicatorsDetailed

\* C16: is_hardcoded_suspicious(text) is true if and only if the trimmed
\* text is non-empty, is not all digits, has two characters or more, has no
\* substring of the denylist, and has a space or starts with an uppercase
\* letter.
C16_SuspiciousIff ==
    hs_op \in {"basic", "detailed"} =>
        LET t == Strip(hs_text)
        IN  hs_out <=>
                /\ t /= <<>>
                /\ \E n \in DOMAIN t : t[n] \notin DigitChars
                /\ Len(t) >= 2
                /\ \A ind \in Denylist : ~Contains(t, ind)
                /\ (\E n \in DOMAIN t : t[n] = " ") \/ t[1] \in UpperChars

\* both outcomes have been seen for a text without a space: true for one
\* that starts with an uppercase letter
C16_Witness ==
    /\ hs_op = "detailed" /\ hs_out
    /\ hs_text = <<" ", "A", "a">>

-----------------------------------------------------------------------------
(* Claims about the sequence of hardcode findings (SpecArea) *)

\* the findings sequences: the one list of the basic scanner, the list of
\* each area of the detailed one
FindingLists(t, issues) ==
    IF t = "basic" THEN {issues}
    ELSE {issues[a] : a \in DOMAIN issues}

IsPrefix(s, t) == Len(s) <= Len(t) /\ SubSeq(t, 1, Len(s)) = s

\* the findings of a file are contiguous, in line order, and each is a
\* finding of the line whose 1-based number it carries
FileRuns(t, l) ==
    /\ \A i, j, k \in DOMAIN l :
          (i < j /\ j < k /\ l[i].file = l[k].file) => l[j].file = l[i].file
    /\ \A i, j \in DOMAIN l :
          (i < j /\ l[i].file = l[j].file) => l[i].line <= l[j].line
    /\ \A i \in DOMAIN l :
          \E n \in DOMAIN tree :
              LET path  == PathJoin(tree[n].root, tree[n].file)
                  lines == SplitLines(tree[n].content)
              IN  /\ path = l[i].file
                  /\ l[i].line \in DOMAIN lines
                  /\ LET found == LineIssues(t, path, l[i].line, lines[l[i].line])
                     IN  \E k \in DOMAIN found : found[k] = l[i]

\* the paths of the files a step scans
ScannedInStep(before, after) ==
    IF tool = "basic"
    THEN IF wi \in DOMAIN tree THEN {PathJoin(tree[wi].root, tree[wi].file)} ELSE {}
    ELSE {fa[1] : fa \in before \ after}

\* a step only appends to a findings sequence, and only findings of the file
\* it scans
AppendsOf(old, new, scanned) ==
    /\ IsPrefix(old, new)
    /\ \A k \in (Len(old) + 1)..Len(new) : new[k].file \in scanned

\* C17: in every findings sequence the findings of one file are a contiguous
\* run with non-decreasing line numbers, each with the 1-based number of its
\* line, and every step appends the findings of the file it scans after the
\* findings of the files scanned before.
C17_FindingsInFileLineOrder ==
    [][ LET scanned == ScannedInStep(to_scan, to_scan')
            new     == hardcoded_issues'
        IN  /\ \A l \in FindingLists(tool, new) : FileRuns(tool, l)
            /\ IF tool = "basic" THEN AppendsOf(hardcoded_issues, new, scanned)
               ELSE /\ DOMAIN hardcoded_issues \subseteq DOMAIN new
                    /\ \A a \in DOMAIN new :
                          AppendsOf(GetOr(hardcoded_issues, a, <<>>), new[a], scanned) ]_vars

\* the basic scanner has findings of two files, the second with findings on
\* its lines 1 and 3, two of them on line 3
C17_Witness ==
    /\ tool = "basic"
    /\ Len(hardcoded_issues) = 4
    /\ hardcoded_issues[1].file = P_DietsScreen
    /\ \A n \in 2..4 : hardcoded_issues[n].file = P_ProgressScreen
    /\ hardcoded_issues[2].line = 1
    /\ hardcoded_issues[3].line = 3 /\ hardcoded_issues[3].type = T_JSX
    /\ hardcoded_issues[4].line = 3 /\ hardcoded_issues[4].type = T_Prop(P_title)

\* the line a finding points to begins, once trimmed, with //
OnCommentLine(i) ==
    \E n \in DOMAIN tree :
        LET lines == SplitLines(tree[n].content)
        IN  /\ PathJoin(tree[n].root, tree[n].file) = i.file
            /\ i.line \in DOMAIN lines
            /\ LET t == Strip(lines[i.line])
               IN  Len(t) >= 2 /\ t[1] = "/" /\ t[2] = "/"

\* C18: no finding, JSX Text or Prop, is recorded for a line whose trimmed
\* content begins with //; a line with // after other content is scanned:
\* line 1 of DietProgramProgressScreen.tsx, <Text>Hello World</Text> // a,
\* has its finding once the scan is over.
C18_CommentLinesSkipped ==
    /\ \A i \in IssueSet : ~OnCommentLine(i)
    /\ (ScanDone /\ Len(tree) = 3 /\ tree[3].st = "ok" /\ tree[3].content = C_two) =>
          \A l \in FindingLists(tool, hardcoded_issues) :
              (\E k \in DOMAIN l : l[k].file = P_ProgressScreen) =>
                  \E k \in DOMAIN l :
                      l[k] = [type |-> T_JSX, file |-> P_ProgressScreen, line |-> 1,
                              text |-> <<"H","e","l","l","o"," ","W","o","r","l","d">>]

\* the detailed scanner is done with a file whose second line is a comment
\* with markup text and a property; its findings are those of lines 1 and 3
C18_Witness ==
    /\ tool = "detailed" /\ ScanDone
    /\ Len(tree) = 3 /\ tree[3].st = "ok" /\ tree[3].content = C_two
    /\ "Nutrition_Tracker" \in DOMAIN hardcoded_issues
    /\ Len(hardcoded_issues["Nutrition_Tracker"]) = 3
    /\ hardcoded_issues["Nutrition_Tracker"][1].line = 1
    /\ hardcoded_issues["Nutrition_Tracker"][2].line = 3

-----------------------------------------------------------------------------
(* Claims about the printed report (SpecArea) *)

\* the lines of the console that are entries of the missing-key report
Entries == {n \in DOMAIN sc_log : sc_log[n].kind = "missing_entry"}
EntryLang(n) == sc_log[n].what[1]
EntryFile(n) == sc_log[n].what[2]
EntryKey(n)  == sc_log[n].what[3]

\* two entries under the same `[LANG] Missing n keys` header
SameBlock(i, j) == \A m \in (i + 1)..j : sc_log[m].kind /= "missing_count"

EntriesOfLang(lang) == {n \in Entries : EntryLang(n) = lang}

\* under each header the entries of a file are together
GroupedByFile ==
    \A i, j, k \in Entries :
        (i < j /\ j < k /\ SameBlock(i, k) /\ EntryFile(i) = EntryFile(k))
            => EntryFile(j) = EntryFile(i)

\* under each header the keys of a file are in sorted order
KeysSorted ==
    \A i, j \in Entries :
        (i < j /\ SameBlock(i, j) /\ EntryFile(i) = EntryFile(j))
            => ~LessSeq(EntryKey(j), EntryKey(i))

\* the count of a header is the number of entries under it, and the total
\* printed for a language is the number of its entries
TotalsMatch ==
    /\ \A h \in DOMAIN sc_log :
          sc_log[h].kind = "missing_count" =>
              sc_log[h].what[2] = Cardinality({n \in Entries : h < n /\ SameBlock(h, n)})
    /\ \A h \in DOMAIN sc_log :
          (sc_log[h].kind = "missing_total"
              \/ (tool = "basic" /\ sc_log[h].kind = "missing_count")) =>
              sc_log[h].what[2] = Cardinality(EntriesOfLang(sc_log[h].what[1]))

\* C19: in the printed missing-key report the entries of a language are
\* grouped by file, the keys of one file are in lexicographically sorted
\* order, and the total printed for a language is the number of its entries.
C19_ReportSortedAndCounted ==
    /\ GroupedByFile
    /\ KeysSorted
    /\ TotalsMatch

-----------------------------------------------------------------------------
(* The hardcoded-strings section of the basic scanner *)

\* the findings outside the Onboarding and Nutrition files, in scan order
OtherFindings == SelectSeq(hardcoded_issues, IsOtherIssue)

IsOtherLine(l) ==
    /\ l.kind = "hardcoded_issue"
    /\ ~InTargets(l.what[1], BasicOnboarding) /\ ~InTargets(l.what[1], BasicNutrition)

\* the lines printed for them
OtherPrinted == SelectSeq(sc_log, IsOtherLine)

\* the numbers a truncation message states
StatedNumbers(l) == {l.what.found, l.what.showing}

\* at most 20 findings: all of them are printed; more than 20: exactly the
\* first 20 in scan order
CappedAtTwenty ==
    (tool = "basic" /\ sc_pc = "done") =>
        OtherPrinted = [n \in DOMAIN Take(OtherFindings, 20) |-> IssueLine(OtherFindings[n])]

\* C20: in the basic scanner, when more than 20 hardcode findings fall outside
\* the Onboarding and Nutrition files, exactly the first 20 of them in scan
\* order are printed and the truncation message states how many more exist;
\* when there are 20 or fewer, all of them are printed.
C20_OtherFindingsCapped ==
    (tool = "basic" /\ sc_pc = "done") =>
        /\ OtherPrinted = [n \in DOMAIN Take(OtherFindings, 20) |-> IssueLine(OtherFindings[n])]
        /\ Len(OtherFindings) > 20 =>
               \E n \in DOMAIN sc_log :
                   /\ sc_log[n].kind = "hardcoded_capped"
                   /\ Len(OtherFindings) - 20 \in StatedNumbers(sc_log[n])

====
